---- MODULE Spec2Model ----
(***************************************************************************)
(* One run of src/app.py, the Streamlit script of AstroBioChem Explorer:   *)
(* the loaded table is scored row by row (df.apply, line 75), a planet is   *)
(* selected, its profile, score breakdown, biomolecule and report are      *)
(* produced, and the table is filtered by the search text and shown sorted *)
(* by habitability.  An uncaught exception ends the run.                   *)
(*                                                                         *)
(* Numbers.  pl_eqt and st_teff are whole Kelvin, pl_rade is in hundredths *)
(* of an Earth radius, and every score is kept in units of 1/Scale point,  *)
(* so that 30 - |t - 300| / 5 and 30 - |r - 1.25| * 15 are exact.          *)
(* A null cell is pandas' NaN: the integer NaN for a number, NaNStr for a  *)
(* string.                                                                 *)
(***************************************************************************)
EXTENDS Integers, Sequences, FiniteSets, TLC

VARIABLES
    columns,       \* the columns of the loaded table (line 43)
    df,            \* its rows, in table order (line 43)
    habitability,  \* the scores of the rows scored so far (line 75)
    pc,            \* the statement the run is at
    planet,        \* the label of the selected row, 0 before the selection (line 85)
    metric,        \* int(planet["habitability"]), -1 before the profile (line 93)
    scores,        \* the four terms of the selected row (line 98)
    molecule_key,  \* the label of lines 128-135, "" before them
    search,        \* the search text (line 187)
    filtered_df,   \* the labels of the rows the filter keeps (lines 189-192)
    displayed,     \* the labels of the rows shown, in order (lines 194-197)
    error          \* the uncaught exception that ended the run, "" if none

vars == <<columns, df, habitability, pc, planet, metric, scores,
          molecule_key, search, filtered_df, displayed, error>>

-----------------------------------------------------------------------------
(* Bounds and input domains *)

MaxRows == 3
MaxQueryLen == 2

\* 1 point = Scale units: 1/5 point per Kelvin (line 54) is 4 units and
\* 15 points per Earth radius (line 61) is 3 units per hundredth.
Scale == 4 * 5

NaN == 0 - 999999
NaNStr == <<"NaN">>

AllColumns == {"pl_name", "hostname", "pl_eqt", "pl_rade", "st_teff"}

EqtValues == {NaN, 0 - 50, 150, 200, 203, 249, 250, 303, 350, 351, 451}
RadeValues == {NaN, 0 - 100, 49, 50, 125, 200, 201, 325, 400}
TeffValues == {NaN, 2500, 3699, 3700, 6000, 6001}

QueryAlphabet == {"k", "K", "e", ".", "("}

RECURSIVE StringsUpTo(_, _)
StringsUpTo(alphabet, n) ==
    IF n = 0 THEN {<<>>}
    ELSE LET shorter == StringsUpTo(alphabet, n - 1)
         IN  shorter \cup {Append(s, c) : s \in shorter, c \in alphabet}

Queries == StringsUpTo(QueryAlphabet, MaxQueryLen)

Row(name, host, t, r, s) ==
    [pl_name |-> name, hostname |-> host, pl_eqt |-> t, pl_rade |-> r, st_teff |-> s]

\* One-row tables covering every combination of the three scored fields.
NumericTables ==
    {<<Row(<<"K", "e">>, <<"K">>, t, r, s)>> :
        t \in EqtValues, r \in RadeValues, s \in TeffValues}

\* Rows that differ in their names; two score levels, so that ties occur.
NamePairs ==
    { <<<<"K", "e">>, <<"K">>>>,
      <<<<"k">>, <<"K", "e">>>>,
      <<<<"e", ".">>, NaNStr>>,
      <<NaNStr, <<"e", "k">>>> }
NameNumerics == { <<303, 125, 6000>>, <<203, NaN, 6001>> }
NameRows == {Row(p[1], p[2], n[1], n[2], n[3]) : p \in NamePairs, n \in NameNumerics}

RECURSIVE TablesUpTo(_, _)
TablesUpTo(rows, n) ==
    IF n = 0 THEN {<<>>}
    ELSE LET shorter == TablesUpTo(rows, n - 1)
         IN  shorter \cup {Append(t, r) : t \in shorter, r \in rows}

NameTables == TablesUpTo(NameRows, MaxRows) \ {<<>>}

\* Tables that lack one column.  The cell of an absent column is never read:
\* every read of it raises KeyError first.
MalformedColumns == {AllColumns \ {c} : c \in AllColumns}

-----------------------------------------------------------------------------
(* Pure helpers *)

Abs(x) == IF x < 0 THEN 0 - x ELSE x
Max(a, b) == IF a >= b THEN a ELSE b
Min(a, b) == IF a <= b THEN a ELSE b

notnull(x) == x # NaN

\* A comparison with NaN is False.
Lt(a, b) == notnull(a) /\ a < b
Gt(a, b) == notnull(a) /\ a > b

-----------------------------------------------------------------------------
(* Habitability model, lines 46-75 *)

\* Temperature term (lines 49-54), in units of 1/Scale point.
TempScore_NoFloor(t) ==
    IF ~notnull(t) THEN 0
    ELSE IF 250 <= t /\ t <= 350 THEN 30 * Scale
    ELSE 30 * Scale - Abs(t - 300) * 4

TempScore_Exclusive(t) ==
    IF ~notnull(t) THEN 0
    ELSE IF 250 < t /\ t < 350 THEN 30 * Scale
    ELSE Max(0, 30 * Scale - Abs(t - 300) * 4)

TempScore_NoPlateau(t) ==
    IF ~notnull(t) THEN 0
    ELSE Max(0, 30 * Scale - Abs(t - 300) * 4)

TempScore(t) ==
    IF ~notnull(t) THEN 0
    ELSE IF 250 <= t /\ t <= 350 THEN 30 * Scale
    ELSE Max(0, 30 * Scale - Abs(t - 300) * 4)

\* Radius term (lines 56-61); r is in hundredths of an Earth radius.
RadiusScore_Centre1(r) ==
    IF ~notnull(r) THEN 0
    ELSE IF 50 <= r /\ r <= 200 THEN 30 * Scale
    ELSE Max(0, 30 * Scale - Abs(r - 100) * 3)

RadiusScore(r) ==
    IF ~notnull(r) THEN 0
    ELSE IF 50 <= r /\ r <= 200 THEN 30 * Scale
    ELSE Max(0, 30 * Scale - Abs(r - 125) * 3)

\* Star term (lines 63-68).
StarScore_NothingOutside(s) ==
    IF ~notnull(s) THEN 0
    ELSE IF 3700 <= s /\ s <= 6000 THEN 20 * Scale
    ELSE 0

StarScore_Weight30(s) ==
    IF ~notnull(s) THEN 0
    ELSE IF 3700 <= s /\ s <= 6000 THEN 30 * Scale
    ELSE 10 * Scale

StarScore(s) ==
    IF ~notnull(s) THEN 0
    ELSE IF 3700 <= s /\ s <= 6000 THEN 20 * Scale
    ELSE 10 * Scale

\* Line 47 sets atmosphere_score to 0 and nothing changes it.
habitability_components(row) ==
    <<TempScore(row.pl_eqt), RadiusScore(row.pl_rade), StarScore(row.st_teff), 0>>

habitability_score(row) ==
    LET c == habitability_components(row)
    IN  Min(c[1] + c[2] + c[3] + c[4], 100 * Scale)

\* The columns a row of the scorer reads (lines 50, 57, 64).
ScorerColumns_WithName == {"pl_name", "pl_eqt", "pl_rade", "st_teff"}

ScorerColumns == {"pl_eqt", "pl_rade", "st_teff"}

\* int(x) of a non-negative score: truncation to whole points (lines 93, 166).
int(x) == x \div Scale

-----------------------------------------------------------------------------
(* Molecule rule chain, lines 128-135 *)

MoleculeKey_RubiscoFirst(eqt, hab, teff) ==
    IF Gt(hab, 80 * Scale) THEN "rubisco"
    ELSE IF Lt(eqt, 250) THEN "antifreeze"
    ELSE IF Gt(teff, 6000) THEN "sod"
    ELSE "lysozyme"

MoleculeKey(eqt, hab, teff) ==
    IF Lt(eqt, 250) THEN "antifreeze"
    ELSE IF Gt(hab, 80 * Scale) THEN "rubisco"
    ELSE IF Gt(teff, 6000) THEN "sod"
    ELSE "lysozyme"

-----------------------------------------------------------------------------
(* Search filter, lines 187-192 *)

\* Series.str.contains(pat, case=False, na=False) keeps its default
\* regex=True: pat is compiled as a regular expression with re.IGNORECASE.
\* Over QueryAlphabet a letter is a literal, "." matches any character and
\* "(" opens a group that nothing closes, which re.compile rejects
\* (re.error: missing ), unterminated subpattern).
Lower(c) == IF c = "K" THEN "k" ELSE c

ReCompileFails(pat) == \E i \in 1..Len(pat) : pat[i] = "("

CharMatch(p, c) == p = "." \/ Lower(p) = Lower(c)

ReSearch(pat, s) ==
    \E i \in 1..(Len(s) - Len(pat) + 1) :
        \A j \in 1..Len(pat) : CharMatch(pat[j], s[i + j - 1])

\* na=False: a null cell does not match.
StrContains(s, pat) == IF s = NaNStr THEN FALSE ELSE ReSearch(pat, s)

\* The row labels kept by the boolean mask of lines 189-192, in table order.
RECURSIVE Mask(_, _, _)
Mask(table, pat, i) ==
    IF i > Len(table) THEN <<>>
    ELSE LET rest == Mask(table, pat, i + 1)
         IN  IF StrContains(table[i].pl_name, pat) \/ StrContains(table[i].hostname, pat)
             THEN <<i>> \o rest
             ELSE rest

Identity(n) == [i \in 1..n |-> i]

-----------------------------------------------------------------------------
(* Sort for display, line 195 *)

Orderings(labels) ==
    LET n == Len(labels)
    IN  {[i \in 1..n |-> labels[f[i]]] :
            f \in {g \in [1..n -> 1..n] : \A a, b \in 1..n : a # b => g[a] # g[b]}}

\* sort_values("habitability", ascending=False) keeps the default
\* kind="quicksort", which pandas documents as not stable: the result is
\* descending, and the order of rows with equal keys is not determined.
SortValues_Ascending(labels, hab) ==
    {o \in Orderings(labels) :
        \A i \in 1..(Len(o) - 1) : hab[o[i]] <= hab[o[i + 1]]}

SortValues(labels, hab) ==
    {o \in Orderings(labels) :
        \A i \in 1..(Len(o) - 1) : hab[o[i]] >= hab[o[i + 1]]}

-----------------------------------------------------------------------------
(* The run of the script *)

\* pc is the statement the run is at.  An uncaught exception sets error and
\* leaves pc at the statement that raised it; nothing runs after it.
Running(at) == pc = at /\ error = ""

Raise(exc) ==
    /\ error' = exc
    /\ UNCHANGED <<columns, df, habitability, pc, planet, metric, scores,
                   molecule_key, search, filtered_df, displayed>>

\* Line 43: the loaded table.  Lines 46-73 only define functions.
Init ==
    /\ \/ columns = AllColumns /\ df \in NumericTables \cup NameTables
       \/ columns \in MalformedColumns /\ df \in NameTables
    /\ habitability = <<>>
    /\ pc = "apply"
    /\ planet = 0
    /\ metric = 0 - 1
    /\ scores = <<>>
    /\ molecule_key = ""
    /\ search = <<>>
    /\ filtered_df = <<>>
    /\ displayed = <<>>
    /\ error = ""

\* Line 75, one row of df.apply(habitability_score, axis=1); the column is
\* assigned once the last row is scored.
ApplyRow ==
    /\ Running("apply")
    /\ \/ /\ ScorerColumns \subseteq columns
          /\ habitability' = Append(habitability, habitability_score(df[Len(habitability) + 1]))
          /\ pc' = IF Len(habitability) + 1 = Len(df) THEN "select" ELSE "apply"
          /\ UNCHANGED <<columns, df, planet, metric, scores, molecule_key,
                         search, filtered_df, displayed, error>>
       \/ /\ ~(ScorerColumns \subseteq columns)
          /\ Raise("KeyError")

\* Lines 81-85: the select box offers every cell of pl_name; the planet is the
\* first row whose pl_name equals the choice.  NaN equals nothing, so choosing
\* a null name leaves no row for iloc[0].
SelectPlanet ==
    /\ Running("select")
    /\ \/ /\ "pl_name" \notin columns
          /\ Raise("KeyError")
       \/ /\ "pl_name" \in columns
          /\ \E i \in 1..Len(df) :
                LET planet_name == df[i].pl_name
                IN  \/ /\ planet_name = NaNStr
                       /\ Raise("IndexError")
                    \/ /\ planet_name # NaNStr
                       /\ planet' = CHOOSE j \in 1..Len(df) :
                                       /\ df[j].pl_name = planet_name
                                       /\ \A k \in 1..(j - 1) : df[k].pl_name # planet_name
                       /\ pc' = "profile"
                       /\ UNCHANGED <<columns, df, habitability, metric, scores,
                                      molecule_key, search, filtered_df, displayed, error>>

\* Lines 91-93: the metric shows int(planet["habitability"]).
Profile ==
    /\ Running("profile")
    /\ metric' = int(habitability[planet])
    /\ pc' = "breakdown"
    /\ UNCHANGED <<columns, df, habitability, planet, scores, molecule_key,
                   search, filtered_df, displayed, error>>

\* Line 98.
Breakdown ==
    /\ Running("breakdown")
    /\ scores' = habitability_components(df[planet])
    /\ pc' = "molecule"
    /\ UNCHANGED <<columns, df, habitability, planet, metric, molecule_key,
                   search, filtered_df, displayed, error>>

\* Lines 128-137.
Molecule ==
    /\ Running("molecule")
    /\ molecule_key' = MoleculeKey(df[planet].pl_eqt, habitability[planet], df[planet].st_teff)
    /\ pc' = "report"
    /\ UNCHANGED <<columns, df, habitability, planet, metric, scores,
                   search, filtered_df, displayed, error>>

\* Lines 156-181: the report reads planet['hostname'].
Report ==
    /\ Running("report")
    /\ \/ /\ "hostname" \notin columns
          /\ Raise("KeyError")
       \/ /\ "hostname" \in columns
          /\ pc' = "search"
          /\ UNCHANGED <<columns, df, habitability, planet, metric, scores,
                         molecule_key, search, filtered_df, displayed, error>>

\* Lines 187-192: the text input and the filter.
Search ==
    /\ Running("search")
    /\ \E q \in Queries :
          /\ search' = q
          /\ \/ /\ q = <<>>
                /\ filtered_df' = Identity(Len(df))
                /\ pc' = "display"
                /\ UNCHANGED error
             \/ /\ q # <<>>
                /\ ReCompileFails(q)
                /\ error' = "re.error"
                /\ UNCHANGED <<filtered_df, pc>>
             \/ /\ q # <<>>
                /\ ~ReCompileFails(q)
                /\ filtered_df' = Mask(df, q, 1)
                /\ pc' = "display"
                /\ UNCHANGED error
    /\ UNCHANGED <<columns, df, habitability, planet, metric, scores,
                   molecule_key, displayed>>

\* Lines 194-197.
Display ==
    /\ Running("display")
    /\ displayed' \in SortValues(filtered_df, habitability)
    /\ pc' = "done"
    /\ UNCHANGED <<columns, df, habitability, planet, metric, scores,
                   molecule_key, search, filtered_df, error>>

Next ==
    \/ ApplyRow
    \/ SelectPlanet
    \/ Profile
    \/ Breakdown
    \/ Molecule
    \/ Report
    \/ Search
    \/ Display

Spec == Init /\ [][Next]_vars

\* The rule chain of lines 128-135 on its own, as a function of the three
\* cells it reads: the selected record carries any habitability value.
HabValues == {0, 50 * Scale, 80 * Scale, 80 * Scale + 1, 90 * Scale, 100 * Scale}

InitClassifier ==
    /\ columns = AllColumns
    /\ \E t \in EqtValues, s \in TeffValues :
          df = <<Row(<<"K", "e">>, <<"K">>, t, NaN, s)>>
    /\ \E h \in HabValues : habitability = <<h>>
    /\ pc = "molecule"
    /\ planet = 1
    /\ metric = int(habitability[1])
    /\ scores = <<>>
    /\ molecule_key = ""
    /\ search = <<>>
    /\ filtered_df = <<>>
    /\ displayed = <<>>
    /\ error = ""

NextClassifier == Molecule

SpecClassifier == InitClassifier /\ [][NextClassifier]_vars

-----------------------------------------------------------------------------
(* Properties *)

Scored == 1..Len(habitability)
BrokenDown == scores # <<>>
Sum(c) == c[1] + c[2] + c[3] + c[4]

\* C1: the habitability of every scored record lies in [0, 100], and for the
\* selected record it equals min(temperature + radius + star + atmosphere, 100),
\* whatever its fields are (null, in range, out of range, negative).
C1_HabitabilityIsClampedSum ==
    /\ \A i \in Scored : 0 <= habitability[i] /\ habitability[i] <= 100 * Scale
    /\ BrokenDown => habitability[planet] = Min(Sum(scores), 100 * Scale)

C1_Witness ==
    /\ BrokenDown
    /\ df[planet].pl_eqt = 0 - 50
    /\ df[planet].pl_rade = 0 - 100
    /\ df[planet].st_teff = 2500
    /\ habitability[planet] = 10 * Scale

\* C2: the temperature term is 0 for a null pl_eqt, 30 for 250 <= pl_eqt <= 350,
\* and max(0, 30 - |pl_eqt - 300| / 5) otherwise; it is never negative and
\* never above 30, and pl_eqt = 200 gives 10.
C2_TemperatureTerm ==
    BrokenDown =>
        LET t == df[planet].pl_eqt
            x == scores[1]
        IN  /\ t = NaN => x = 0
            /\ (t # NaN /\ 250 <= t /\ t <= 350) => x = 30 * Scale
            /\ (t # NaN /\ (t < 250 \/ t > 350)) =>
                   x = Max(0, 30 * Scale - (Abs(t - 300) * Scale) \div 5)
            /\ 0 <= x /\ x <= 30 * Scale
            /\ t = 200 => x = 10 * Scale

C2_Witness == BrokenDown /\ df[planet].pl_eqt = 200 /\ scores[1] = 10 * Scale

\* C3: the radius term is 0 for a null pl_rade, 30 for 0.5 <= pl_rade <= 2.0,
\* and max(0, 30 - |pl_rade - 1.25| * 15) otherwise; it is never negative and
\* never above 30, pl_rade = 1.25 gives 30 and pl_rade = 3.25 gives 0.
C3_RadiusTerm ==
    BrokenDown =>
        LET r == df[planet].pl_rade
            x == scores[2]
        IN  /\ r = NaN => x = 0
            /\ (r # NaN /\ 50 <= r /\ r <= 200) => x = 30 * Scale
            /\ (r # NaN /\ (r < 50 \/ r > 200)) =>
                   x = Max(0, 30 * Scale - (Abs(r - 125) * 15 * Scale) \div 100)
            /\ 0 <= x /\ x <= 30 * Scale
            /\ r = 125 => x = 30 * Scale
            /\ r = 325 => x = 0

C3_Witness == BrokenDown /\ df[planet].pl_rade = 325 /\ scores[2] = 0

\* C4: the star term is 20 for 3700 <= st_teff <= 6000, 10 for any other
\* non-null st_teff and 0 for a null one; the atmosphere term is always 0.
C4_StarAndAtmosphereTerms ==
    BrokenDown =>
        LET s == df[planet].st_teff
        IN  /\ s = NaN => scores[3] = 0
            /\ (s # NaN /\ 3700 <= s /\ s <= 6000) => scores[3] = 20 * Scale
            /\ (s # NaN /\ (s < 3700 \/ s > 6000)) => scores[3] = 10 * Scale
            /\ scores[4] = 0

C4_Witness == BrokenDown /\ df[planet].st_teff = 6001 /\ scores[3] = 10 * Scale

\* C5: the rule chain gives the label of the first rule that matches, in the
\* order pl_eqt < 250 (antifreeze), habitability > 80 (rubisco),
\* st_teff > 6000 (sod), otherwise lysozyme; a comparison on a null cell is
\* false and raises nothing, so every record gets exactly one of the four labels.
Classified == pc = "report"

C5_FirstMatchingRule ==
    Classified =>
        LET t == df[planet].pl_eqt
            s == df[planet].st_teff
            rule1 == t # NaN /\ t < 250
            rule2 == habitability[planet] > 80 * Scale
            rule3 == s # NaN /\ s > 6000
        IN  /\ error = ""
            /\ molecule_key \in {"antifreeze", "rubisco", "sod", "lysozyme"}
            /\ rule1 => molecule_key = "antifreeze"
            /\ (~rule1 /\ rule2) => molecule_key = "rubisco"
            /\ (~rule1 /\ ~rule2 /\ rule3) => molecule_key = "sod"
            /\ (~rule1 /\ ~rule2 /\ ~rule3) => molecule_key = "lysozyme"

C5_Witness ==
    /\ Classified
    /\ df[planet].pl_eqt = 200
    /\ habitability[planet] = 90 * Scale
    /\ molecule_key = "antifreeze"

\* C6: the filter never raises; an empty query keeps every record, and a
\* non-empty one keeps exactly the records whose pl_name or hostname contains
\* the query as a case-insensitive substring, a null name never matching.
Substring(q, s) ==
    /\ s # NaNStr
    /\ \E i \in 1..(Len(s) - Len(q) + 1) :
          \A j \in 1..Len(q) : Lower(q[j]) = Lower(s[i + j - 1])

FilterRan == pc \in {"display", "done"} \/ (pc = "search" /\ error # "")

C6_FilterIsSubstringMatch ==
    FilterRan =>
        /\ error = ""
        /\ Len(filtered_df) <= Len(df)
        /\ \A i \in 1..Len(filtered_df) : filtered_df[i] \in 1..Len(df)
        /\ \A i \in 1..(Len(filtered_df) - 1) : filtered_df[i] < filtered_df[i + 1]
        /\ \A r \in 1..Len(df) :
              (\E i \in 1..Len(filtered_df) : filtered_df[i] = r)
                  <=> \/ search = <<>>
                      \/ Substring(search, df[r].pl_name)
                      \/ Substring(search, df[r].hostname)

\* C7: the displayed sequence is a permutation of the filtered records in
\* descending habitability, records of equal habitability keeping their
\* relative order of the table.
Shown == pc = "done"

Occurrences(seq, x) == Cardinality({i \in 1..Len(seq) : seq[i] = x})

IsPermutation(a, b) ==
    /\ Len(a) = Len(b)
    /\ \A x \in 1..Len(df) : Occurrences(a, x) = Occurrences(b, x)

Descending(seq) ==
    \A i \in 1..(Len(seq) - 1) : habitability[seq[i]] >= habitability[seq[i + 1]]

C7_StableDescendingSort ==
    Shown =>
        /\ IsPermutation(displayed, filtered_df)
        /\ Descending(displayed)
        /\ \A i, j \in 1..Len(displayed) :
              (i < j /\ habitability[displayed[i]] = habitability[displayed[j]])
                  => displayed[i] < displayed[j]

\* C7 as amended: the displayed sequence is a permutation of the filtered
\* records in descending habitability; the order among equal scores is not
\* fixed.
C7_DescendingPermutation ==
    Shown => IsPermutation(displayed, filtered_df) /\ Descending(displayed)

C7_Witness ==
    /\ Shown
    /\ Len(displayed) = 3
    /\ habitability[displayed[1]] > habitability[displayed[2]]
    /\ habitability[displayed[2]] = habitability[displayed[3]]

\* C8: the habitability attached to every record is an integer.
C8_HabitabilityIsInteger ==
    \A i \in Scored : habitability[i] % Scale = 0

\* C8 as amended: the attached habitability is not rounded; it is an integer
\* when neither pl_eqt nor pl_rade is on the linear-decay branch (each is null
\* or in its ideal range), and the integer the profile shows is
\* int(habitability), its truncation.
OffDecay(x, lo, hi) == x = NaN \/ (lo <= x /\ x <= hi)

C8_IntegerOffDecayTruncatedOnDisplay ==
    /\ \A i \in Scored :
          (OffDecay(df[i].pl_eqt, 250, 350) /\ OffDecay(df[i].pl_rade, 50, 200))
              => habitability[i] % Scale = 0
    /\ metric # 0 - 1 =>
          /\ metric * Scale <= habitability[planet]
          /\ habitability[planet] < (metric + 1) * Scale

C8_Witness ==
    /\ metric = 10
    /\ df[planet].pl_eqt = 203
    /\ habitability[planet] = 10 * Scale + 12

\* C9: on a table without the column pl_name the run fails before the scorer
\* has been applied to any row.
C9_FatalBeforeAnyScoring ==
    "pl_name" \notin columns => habitability = <<>>

\* C9 as amended: on a table without the column pl_name (the scorer's columns
\* present) the run fails with a KeyError at the planet selection, after the
\* scorer has been applied to every row; nothing after the selection runs.
C9_FatalAtSelectionAfterScoring ==
    "pl_name" \notin columns =>
        /\ pc \in {"apply", "select"}
        /\ planet = 0
        /\ error \in {"", "KeyError"}
        /\ error # "" => (pc = "select" /\ Len(habitability) = Len(df))
        /\ (pc = "select" /\ error = "") => ~ENABLED (SelectPlanet /\ error' = "")

C9_Witness ==
    /\ "pl_name" \notin columns
    /\ error = "KeyError"
    /\ pc = "select"
    /\ Len(df) = 3
    /\ Len(habitability) = 3

\* C10: the four terms sum to at most 80, so the clamp at 100 never changes
\* the sum and the rule chain never gives rubisco to a record scored by
\* habitability_score.
C10_SumAtMost80NoRubisco ==
    /\ \A i \in Scored : habitability[i] <= 80 * Scale
    /\ BrokenDown => (Sum(scores) <= 80 * Scale /\ habitability[planet] = Sum(scores))
    /\ molecule_key # "rubisco"

C10_Witness ==
    /\ molecule_key = "lysozyme"
    /\ habitability[planet] = 80 * Scale
    /\ df[planet].st_teff = 6000

====
